---- MODULE Spec2Model ----
(***************************************************************************)
(* Model of the Panasonic Japan integration: the token-refresh-aware API   *)
(* client (api.py, PanasonicAPI) and the polling coordinator               *)
(* (coordinator.py, PanasonicDataUpdateCoordinator._async_update_data).    *)
(*                                                                         *)
(* A caller is one run of _async_update_data (a poll tick).  Every HTTP    *)
(* exchange is two steps, the send and the arrival of the answer, so that  *)
(* requests in flight are states of the model.  The resource API and the   *)
(* token endpoint are the environment: their answers are chosen with \E.   *)
(***************************************************************************)
EXTENDS Integers, Sequences, FiniteSets, TLC

VARIABLES
    api,      \* PanasonicAPI._access_token / ._refresh_token
    entry,    \* config_entry.data, the persisted credential record
    coord,    \* coordinator.appliance_id / .product_code
    issued,   \* token endpoint: number of the last token it issued
    ticks,    \* number of poll ticks started
    faults,   \* number of failures the environment has produced
    budget,   \* number of failures the environment may produce
    active,   \* the callers that run ticks
    pc,       \* per caller: position in _async_update_data / the API call
    loc,      \* per caller: local variables of the tick and of the API call
    hist,     \* per caller: what the tick has done so far (observation only)
    result,   \* per caller: what the last tick returned or raised
    flow,     \* the config flow: its context, the form it shows, the entries
    pure      \* argument and result of the pure function under evaluation

vars ==
    <<api, entry, coord, issued, ticks, faults, budget, active, pc, loc, hist,
      result, flow, pure>>

-----------------------------------------------------------------------------
(* Bounds *)

MaxTicks == 2
MaxFaults == 4
MaxConcFaults == 2
MaxTickFaults == 14
MaxFlows == 2
MaxSubmits == 2
MaxReduction == 1000
MaxIdLen == 3

(* Program constants *)

None == 0
YEN_PER_KWH == 31

Callers == {1, 2}
ApplianceIds == {"A+b=", "Cd/e"}
Statuses == {200, 304, 401, 403, 500}
ReductionAmounts == {0, 750, 1000}

-----------------------------------------------------------------------------
(* Exceptions: kind is the Python class, msg the message prefix, status    *)
(* the HTTP status the message or the response carries, cause the class    *)
(* and message of the exception it is chained to (raise ... from err).     *)

Exc(kind, msg, status, cause, causeMsg) ==
    [kind |-> kind, msg |-> msg, status |-> status, cause |-> cause,
     causeMsg |-> causeMsg]

NoExc == Exc("none", "", None, "none", "")

NoBody == [req |-> 0, call |-> "none", attempt |-> "none", appliance |-> "",
           amount |-> 0]

NoTokenData == [present |-> FALSE, has_at |-> FALSE, at |-> None,
                has_rt |-> FALSE, rt |-> None, other |-> FALSE]

NoResponse == [status |-> None, body |-> NoBody]

NoResult ==
    [kind |-> "none", msg |-> "", from |-> NoExc, device_status |-> NoBody,
     electricity |-> NoBody, electricity_usage_kwh |-> <<0, 1>>,
     appliance_id |-> "", product_code |-> ""]

NoEntry == [access_token |-> None, refresh_token |-> None,
            appliance_id |-> "", product_code |-> ""]

\* the flow context before async_step_user has filled it
NoContext == [code_verifier |-> <<>>, state |-> <<>>, nonce |-> <<>>,
              login_url |-> <<>>]

\* "str | None" of _extract_code_from_callback: None
NoCode == [none |-> TRUE, value |-> ""]

\* no user-info answer
NoUserInfo == [myAppliances |-> <<>>]

\* what one submission of the callback form did: the extracted code, the
\* exchange it sent, the answers it got, the requests it made, what it caught
NoSubmit ==
    [url |-> "none", code |-> NoCode, exchanged |-> FALSE,
     sent_code |-> "", sent_verifier |-> <<>>, token_response |-> NoTokenData,
     user_info |-> NoUserInfo, asked |-> FALSE, user_info_requests |-> 0,
     token_posts |-> 0, caught |-> NoExc, created |-> NoEntry]

\* no config flow has been started
NoFlow ==
    [step |-> "none", context |-> NoContext, errors |-> "",
     result |-> "none", flows |-> 0, submits |-> 0, entries |-> <<>>,
     last |-> NoSubmit]

\* no pure function is under evaluation
NoPure == [fn |-> "none", stage |-> "none", arg |-> <<>>, out |-> <<>>,
           back |-> <<>>]

InitLoc ==
    [phase |-> "none", call |-> "none", ret |-> "none",
     headers |-> [auth |-> FALSE, bearer |-> None],
     response |-> NoResponse, err |-> NoExc,
     device_status |-> NoBody, posted |-> None, token_data |-> NoTokenData,
     appliance_id |-> ""]

NoCallResult == [kind |-> "pending", body |-> NoBody, exc |-> NoExc]

(* hist is written by the actions and read only by the properties.        *)
(* Fields n*, statuses, events, stale cover the tick; fields c* cover the *)
(* API call in progress (or the last one finished).                       *)
InitHist ==
    [nReq |-> 0, nRefresh |-> 0, nPost |-> 0, refreshOk |-> 0,
     refreshFail |-> 0, statuses |-> <<>>, events |-> <<>>, stale |-> FALSE,
     persisted |-> FALSE, entryBefore |-> NoEntry,
     cReq |-> 0, cRefresh |-> 0, cFirst |-> None, cRefreshed |-> FALSE,
     cGot |-> None, cRetryBearer |-> None, cRetryAuth |-> FALSE,
     cRetry |-> "none", cRetryStatus |-> None, cRetryBody |-> NoBody,
     callres |-> NoCallResult,
     cApi |-> [access_token |-> None, refresh_token |-> None]]

-----------------------------------------------------------------------------
(* api.py *)

Truthy(token) == token # None

\* every error status starts the refresh
IsAuthStatus_AnyError(status) == status >= 400

\* _make_request_with_retry: response.status_code in (401, 403)
IsAuthStatus(status) == status \in {401, 403}

\* _get_headers: the Authorization header is set only for a truthy token
GetHeaders(a) ==
    [auth |-> Truthy(a.access_token),
     bearer |-> IF Truthy(a.access_token) THEN a.access_token ELSE None]

\* the re-issued request keeps the header of the first request
RetryHeaders_Stale(a, old) == old

\* _make_request_with_retry: the header of the re-issued request
RetryHeaders(a, old) == [auth |-> TRUE, bearer |-> a.access_token]

\* every client is taken to hold a refresh token
HasRefreshToken_Always(a) == TRUE

\* refresh_access_token: "if not self._refresh_token" is false
HasRefreshToken(a) == Truthy(a.refresh_token)

\* refresh_access_token: "Update tokens"
UpdateTokens(a, td) ==
    [access_token |-> IF td.has_at THEN td.at ELSE None,
     refresh_token |-> IF td.has_rt THEN td.rt ELSE a.refresh_token]

\* refresh_access_token: raise PanasonicAPIError("No refresh token available")
NoRefreshTokenError ==
    Exc("PanasonicAPIError", "No refresh token available", None, "none", "")

\* refresh_access_token: raise PanasonicAPIError("Failed to refresh token") from err
RefreshError(why) ==
    Exc("PanasonicAPIError", "Failed to refresh token", None, why, "")

\* the error of the refresh is passed on as it is
AuthenticationFailed_Unwrapped(response, err) == err

\* _make_request_with_retry: raise PanasonicAPIError("Authentication failed:
\* {response.status_code} ...") from err, response being the first response
AuthenticationFailed(response, err) ==
    Exc("PanasonicAPIError", "Authentication failed", response.status,
        err.kind, err.msg)

\* an error status is reported as an authentication failure
HTTPError_AsAuthFailure(response) ==
    Exc("PanasonicAPIError", "Authentication failed", response.status,
        "none", "")

\* response.raise_for_status() of requests
HTTPError(response) ==
    Exc("HTTPError", "HTTP Error", response.status, "none", "")

\* an exception of session.request: connection error or timeout
ConnectionError == Exc("ConnectionError", "", None, "none", "")

\* the usage is never reported below zero
calculate_electricity_usage_Clamped(cost_reduction) ==
    <<IF cost_reduction > 750 THEN 0 ELSE 750 - cost_reduction, YEN_PER_KWH>>

\* calculate_electricity_usage, as the exact quotient <<numerator, denominator>>
calculate_electricity_usage(cost_reduction) ==
    <<750 - cost_reduction, YEN_PER_KWH>>

\* a mapping is truthy when it has a key
TokenDataTruthy(td) == td.has_at \/ td.has_rt \/ td.other

-----------------------------------------------------------------------------
(* coordinator.py *)

\* "401" in str(err) or "403" in str(err)
Mentions401or403(err) == err.status \in {401, 403}

\* new_data holds the tokens alone
NewEntryData_TokensOnly(e, a) ==
    [NoEntry EXCEPT !.access_token = a.access_token,
                    !.refresh_token = IF Truthy(a.refresh_token)
                                      THEN a.refresh_token
                                      ELSE e.refresh_token]

\* new_data of the recovery path
NewEntryData(e, a) ==
    [e EXCEPT !.access_token = a.access_token,
              !.refresh_token = IF Truthy(a.refresh_token)
                                THEN a.refresh_token ELSE @]

\* the mapping _async_update_data returns
Snapshot(device_status, electricity_data, co) ==
    [NoResult EXCEPT
        !.kind = "Snapshot",
        !.device_status = device_status,
        !.electricity = electricity_data,
        !.electricity_usage_kwh =
            calculate_electricity_usage(electricity_data.amount),
        !.appliance_id = co.appliance_id,
        !.product_code = co.product_code]

\* raise UpdateFailed(f"Error communicating with API: {err}") from err
UpdateFailedApi(err) ==
    [NoResult EXCEPT !.kind = "UpdateFailed",
                     !.msg = "Error communicating with API", !.from = err]

\* raise UpdateFailed(f"Unexpected error: {err}") from err
UpdateFailedUnexpected(err) ==
    [NoResult EXCEPT !.kind = "UpdateFailed", !.msg = "Unexpected error",
                     !.from = err]

\* the recovery path raises UpdateFailed from the error of the recovery
RecoveryFailure_FromRefreshErr(err, refresh_err) ==
    UpdateFailedApi(refresh_err)

\* the recovery path lets the error of the recovery escape
RecoveryFailure_Escapes(err, refresh_err) ==
    [NoResult EXCEPT !.kind = refresh_err.kind, !.msg = refresh_err.msg,
                     !.from = refresh_err]

\* except Exception as refresh_err: log, then fall through to the raise of
\* UpdateFailed from the error caught first
RecoveryFailure(err, refresh_err) == UpdateFailedApi(err)

\* the recovery repeats the call that failed and keeps what the first
\* attempt fetched
RetryFrom_FailedCall(call) == call

\* the recovery path fetches the status and then the reduction again
RetryFrom(call) == "status"

\* the fetches are retried without the persist
AfterOrchRefresh_NoPersist(td) ==
    IF TokenDataTruthy(td) THEN "headers" ELSE "done"

\* if token_data: persist, then fetch again; a mapping without keys skips
\* both and falls through to the raise of UpdateFailed
AfterOrchRefresh(td) == IF TokenDataTruthy(td) THEN "persist" ELSE "done"

\* the handlers of _async_update_data for an exception raised in the first
\* attempt: "recover", or the UpdateFailed it raises
OuterHandler(exc) ==
    IF exc.kind = "PanasonicAPIError"
    THEN IF Mentions401or403(exc) THEN "recover" ELSE "api"
    ELSE "unexpected"

-----------------------------------------------------------------------------
(* The environment *)

\* what the resource API answers to a request of the given call (the
\* amount matters in a 200 answer to the reduction call)
ResourceOutcomes(call) ==
    [kind : {"response"}, status : Statuses, amount : {0}]
    \cup [kind : {"response"}, status : {200},
          amount : IF call = "reduction" THEN ReductionAmounts ELSE {0}]
    \cup {[kind |-> "ConnectionError", status |-> None, amount |-> 0]}

\* what the token endpoint answers: an error, or a 2xx mapping that has or
\* lacks access_token and refresh_token (other: it has other keys)
TokenOutcomes ==
    {[ok |-> FALSE, why |-> w, has_at |-> FALSE, has_rt |-> FALSE,
      other |-> FALSE] : w \in {"HTTPError", "ConnectionError"}}
    \cup {[ok |-> TRUE, why |-> "", has_at |-> TRUE, has_rt |-> r,
           other |-> TRUE] : r \in BOOLEAN}
    \cup {[ok |-> TRUE, why |-> "", has_at |-> FALSE, has_rt |-> FALSE,
           other |-> o] : o \in BOOLEAN}

\* the environment's failures are counted: an answer other than 200, an
\* exception of a request, a token answer without access_token
ResourceFault(o) ==
    IF o.kind = "response" /\ o.status = 200 THEN 0 ELSE 1

TokenFault(o) == IF o.ok /\ o.has_at THEN 0 ELSE 1

Allowed(n) == faults + n <= budget

TokenData(o, fresh) ==
    [present |-> TRUE, has_at |-> o.has_at,
     at |-> IF o.has_at THEN fresh ELSE None,
     has_rt |-> o.has_rt, rt |-> IF o.has_rt THEN fresh ELSE None,
     other |-> o.other]

-----------------------------------------------------------------------------
(* Control flow shared by the actions *)

Goto(c, p, l, h) ==
    /\ pc' = [pc EXCEPT ![c] = p]
    /\ loc' = [loc EXCEPT ![c] = l]
    /\ hist' = [hist EXCEPT ![c] = h]
    /\ result' = result

\* the tick never returns
Finish_NeverDone(c, res, l, h) == Goto(c, pc[c], l, h)

\* the tick ends: it returns a Snapshot or raises
Finish(c, res, l, h) ==
    /\ pc' = [pc EXCEPT ![c] = "done"]
    /\ loc' = [loc EXCEPT ![c] = l]
    /\ hist' = [hist EXCEPT ![c] = h]
    /\ result' = [result EXCEPT ![c] = res]

\* exc propagates into _async_update_data
Throw(c, exc, l, h) ==
    IF l.phase = "initial"
    THEN CASE OuterHandler(exc) = "recover" ->
                Goto(c, "refresh",
                     [l EXCEPT !.phase = "recovery", !.err = exc,
                               !.ret = "orch"],
                     [h EXCEPT !.events = Append(@, "catch")])
           [] OuterHandler(exc) = "api" ->
                Finish(c, UpdateFailedApi(exc), l, h)
           [] OTHER -> Finish(c, UpdateFailedUnexpected(exc), l, h)
    ELSE Finish(c, RecoveryFailure(l.err, exc), l, h)

\* exc leaves the API call in progress
RaiseFromCall(c, exc, l, h) ==
    Throw(c, exc, l,
          [h EXCEPT !.callres = [kind |-> "raise", body |-> NoBody,
                                 exc |-> exc]])

-----------------------------------------------------------------------------
(* Actions *)

\* the host scheduler calls _async_update_data
TickStart(c) ==
    /\ c \in active
    /\ pc[c] \in {"idle", "done"}
    /\ ticks < MaxTicks
    /\ ticks' = ticks + 1
    /\ pc' = [pc EXCEPT ![c] = "headers"]
    /\ loc' = [loc EXCEPT ![c] = [InitLoc EXCEPT !.phase = "initial",
                                                 !.call = "status"]]
    /\ hist' = [hist EXCEPT ![c] = InitHist]
    /\ result' = [result EXCEPT ![c] = NoResult]
    /\ UNCHANGED <<api, entry, coord, issued, faults, active, budget,
                 flow, pure>>

\* get_device_status / get_electricity_reduction: the URL and _get_headers()
BuildHeaders(c) ==
    /\ pc[c] = "headers"
    /\ Goto(c, "request",
            [loc[c] EXCEPT !.headers = GetHeaders(api),
                           !.response = NoResponse,
                           !.appliance_id = coord.appliance_id],
            [hist[c] EXCEPT !.events = Append(@, loc[c].call),
                            !.cReq = 0, !.cRefresh = 0, !.cFirst = None,
                            !.cRefreshed = FALSE, !.cGot = None,
                            !.cRetryBearer = None, !.cRetryAuth = FALSE,
                            !.cRetry = "none", !.cRetryStatus = None,
                            !.cRetryBody = NoBody,
                            !.callres = NoCallResult,
                            !.cApi = api])
    /\ UNCHANGED <<api, entry, coord, issued, ticks, faults, active, budget,
                 flow, pure>>

\* _make_request_with_retry: the first session.request is sent
SendRequest(c) ==
    /\ pc[c] = "request"
    /\ Goto(c, "await", loc[c],
            [hist[c] EXCEPT !.nReq = @ + 1, !.cReq = @ + 1,
                            !.stale = @ \/ (loc[c].headers.auth /\
                                loc[c].headers.bearer # api.access_token)])
    /\ UNCHANGED <<api, entry, coord, issued, ticks, faults, active, budget,
                 flow, pure>>

ResponseBody(c, o) ==
    [req |-> hist[c].nReq, call |-> loc[c].call, attempt |-> loc[c].phase,
     appliance |-> loc[c].appliance_id, amount |-> o.amount]

\* the first session.request returns or raises
Respond(c) ==
    /\ pc[c] = "await"
    /\ \E o \in ResourceOutcomes(loc[c].call) :
        /\ Allowed(ResourceFault(o))
        /\ faults' = faults + ResourceFault(o)
        /\ LET h == [hist[c] EXCEPT
                       !.cFirst = o.status,
                       !.statuses = IF o.kind = "response" /\ Len(@) < 3
                                    THEN Append(@, o.status) ELSE @]
               l == [loc[c] EXCEPT !.response =
                       [status |-> o.status, body |-> ResponseBody(c, o)]]
           IN  IF o.kind = "ConnectionError"
               THEN RaiseFromCall(c, ConnectionError, loc[c], h)
               ELSE IF IsAuthStatus(o.status)
                    THEN Goto(c, "refresh", [l EXCEPT !.ret = "client"], h)
                    ELSE Goto(c, "raise_for_status", l, h)
    /\ UNCHANGED <<api, entry, coord, issued, ticks, active, budget,
                 flow, pure>>

\* an exception of refresh_access_token reaches its caller: the except
\* clause of _make_request_with_retry, or the recovery path of the tick
RefreshRaises(c, exc, l, h) ==
    IF l.ret = "client"
    THEN RaiseFromCall(c, AuthenticationFailed(l.response, exc), l, h)
    ELSE Throw(c, exc, l, h)

\* refresh_access_token is called: it raises without a refresh token, else
\* it posts the refresh token to the token endpoint
RefreshCall(c) ==
    /\ pc[c] = "refresh"
    /\ LET h == [hist[c] EXCEPT
                    !.nRefresh = @ + 1,
                    !.cRefresh = IF loc[c].ret = "client" THEN @ + 1 ELSE @,
                    !.events = IF loc[c].ret = "orch"
                               THEN Append(@, "refresh") ELSE @]
       IN  IF ~HasRefreshToken(api)
           THEN RefreshRaises(c, NoRefreshTokenError, loc[c], h)
           ELSE Goto(c, "await_token",
                     [loc[c] EXCEPT !.posted = api.refresh_token],
                     [h EXCEPT !.nPost = @ + 1])
    /\ UNCHANGED <<api, entry, coord, issued, ticks, faults, active, budget,
                 flow, pure>>

\* the token endpoint answers, and refresh_access_token updates the tokens
\* and returns token_data, or raises
TokenRespond(c) ==
    /\ pc[c] = "await_token"
    /\ \E o \in TokenOutcomes :
        /\ Allowed(TokenFault(o))
        /\ faults' = faults + TokenFault(o)
        /\ IF ~o.ok
           THEN /\ api' = api
                /\ issued' = issued
                /\ RefreshRaises(c, RefreshError(o.why), loc[c],
                                 [hist[c] EXCEPT !.refreshFail = @ + 1])
           ELSE LET td == TokenData(o, issued + 1)
                    a2 == UpdateTokens(api, td)
                    h == [hist[c] EXCEPT
                            !.refreshOk = @ + 1,
                            !.cRefreshed = @ \/ loc[c].ret = "client",
                            !.cGot = IF loc[c].ret = "client"
                                     THEN a2.access_token ELSE @]
                IN  /\ api' = a2
                    /\ issued' = IF o.has_at \/ o.has_rt
                                 THEN issued + 1 ELSE issued
                    /\ IF loc[c].ret = "client"
                       THEN Goto(c, "retry_headers", loc[c], h)
                       ELSE IF AfterOrchRefresh(td) = "done"
                            THEN Finish(c, UpdateFailedApi(loc[c].err),
                                        [loc[c] EXCEPT !.token_data = td], h)
                            ELSE Goto(c, AfterOrchRefresh(td),
                                      [loc[c] EXCEPT !.token_data = td,
                                                     !.call =
                                                       RetryFrom(loc[c].call)],
                                      h)
    /\ UNCHANGED <<entry, coord, ticks, active, budget,
                 flow, pure>>

\* _make_request_with_retry: kwargs["headers"]["Authorization"] is set from
\* the token the client holds now
SetRetryHeaders(c) ==
    /\ pc[c] = "retry_headers"
    /\ Goto(c, "retry_request",
            [loc[c] EXCEPT !.headers = RetryHeaders(api, @)], hist[c])
    /\ UNCHANGED <<api, entry, coord, issued, ticks, faults, active, budget,
                 flow, pure>>

\* _make_request_with_retry: the request is sent again
SendRetry(c) ==
    /\ pc[c] = "retry_request"
    /\ Goto(c, "retry_await", loc[c],
            [hist[c] EXCEPT !.nReq = @ + 1, !.cReq = @ + 1,
                            !.cRetryBearer = loc[c].headers.bearer,
                            !.cRetryAuth = loc[c].headers.auth,
                            !.stale = @ \/
                                loc[c].headers.bearer # api.access_token])
    /\ UNCHANGED <<api, entry, coord, issued, ticks, faults, active, budget,
                 flow, pure>>

\* the re-issued request returns, or raises inside the try block
RetryRespond(c) ==
    /\ pc[c] = "retry_await"
    /\ \E o \in ResourceOutcomes(loc[c].call) :
        /\ Allowed(ResourceFault(o))
        /\ faults' = faults + ResourceFault(o)
        /\ LET h == [hist[c] EXCEPT
                       !.cRetry = o.kind, !.cRetryStatus = o.status,
                       !.cRetryBody = IF o.kind = "response"
                                      THEN ResponseBody(c, o) ELSE NoBody,
                       !.statuses = IF o.kind = "response" /\ Len(@) < 3
                                    THEN Append(@, o.status) ELSE @]
           IN  IF o.kind = "ConnectionError"
               THEN RaiseFromCall(c,
                       AuthenticationFailed(loc[c].response, ConnectionError),
                       loc[c], h)
               ELSE Goto(c, "raise_for_status",
                         [loc[c] EXCEPT !.response =
                             [status |-> o.status,
                              body |-> ResponseBody(c, o)]], h)
    /\ UNCHANGED <<api, entry, coord, issued, ticks, active, budget,
                 flow, pure>>

\* response.raise_for_status(); return response.json(): back in
\* _async_update_data, the next call or the Snapshot
ReturnCall(c) ==
    /\ pc[c] = "raise_for_status"
    /\ LET r == loc[c].response
           h == [hist[c] EXCEPT !.callres =
                    [kind |-> "return", body |-> r.body, exc |-> NoExc]]
       IN  IF r.status >= 400
           THEN RaiseFromCall(c, HTTPError(r), loc[c], hist[c])
           ELSE IF loc[c].call = "status"
                THEN Goto(c, "headers",
                          [loc[c] EXCEPT !.device_status = r.body,
                                         !.call = "reduction"], h)
                ELSE Finish(c, Snapshot(loc[c].device_status, r.body, coord),
                            loc[c], h)
    /\ UNCHANGED <<api, entry, coord, issued, ticks, faults, active, budget,
                 flow, pure>>

\* the recovery path: config_entries.async_update_entry(new_data), which
\* may raise, then the fetches again
Persist(c) ==
    /\ pc[c] = "persist"
    /\ \E ok \in BOOLEAN :
        /\ Allowed(IF ok THEN 0 ELSE 1)
        /\ faults' = faults + (IF ok THEN 0 ELSE 1)
        /\ LET h == [hist[c] EXCEPT !.events = Append(@, "persist"),
                                     !.persisted = ok,
                                     !.entryBefore = entry]
           IN  IF ok
               THEN /\ entry' = NewEntryData(entry, api)
                    /\ Goto(c, "headers", loc[c], h)
               ELSE /\ entry' = entry
                    /\ Throw(c, Exc("Exception", "async_update_entry", None,
                                    "none", ""), loc[c], h)
    /\ UNCHANGED <<api, coord, issued, ticks, active, budget,
                 flow, pure>>

-----------------------------------------------------------------------------
(* Specifications *)

\* PanasonicDataUpdateCoordinator.__init__: the client and the appliance
\* identity are read from the config entry; refresh_token may be absent
InitWith(a, b) ==
    /\ \E rt \in {1, None}, id \in ApplianceIds :
        /\ entry = [access_token |-> 1, refresh_token |-> rt,
                    appliance_id |-> id, product_code |-> "NR-F"]
        /\ api = [access_token |-> 1, refresh_token |-> rt]
        /\ coord = [appliance_id |-> id, product_code |-> "NR-F"]
    /\ issued = 1
    /\ ticks = 0
    /\ faults = 0
    /\ budget = b
    /\ active = a
    /\ pc = [c \in Callers |-> "idle"]
    /\ loc = [c \in Callers |-> InitLoc]
    /\ hist = [c \in Callers |-> InitHist]
    /\ result = [c \in Callers |-> NoResult]
    /\ flow = NoFlow
    /\ pure = NoPure

Init == InitWith({1}, MaxFaults)

\* two ticks that share the client and overlap
InitConc == InitWith(Callers, MaxConcFaults)

\* the last tick of the model, after ticks that met no failure, for one
\* appliance: whatever the servers answer to it (a tick gets at most
\* MaxTickFaults answers: 8 requests, 5 refresh posts, 1 update of the entry)
InitTickWith(f) ==
    /\ \E rt \in {1, None}, id \in {"A+b="} :
        /\ entry = [access_token |-> 1, refresh_token |-> rt,
                    appliance_id |-> id, product_code |-> "NR-F"]
        /\ api = [access_token |-> 1, refresh_token |-> rt]
        /\ coord = [appliance_id |-> id, product_code |-> "NR-F"]
    /\ issued = 1
    /\ ticks = MaxTicks - 1
    /\ faults = 0
    /\ budget = MaxTickFaults
    /\ active = {1}
    /\ pc = [c \in Callers |-> "idle"]
    /\ loc = [c \in Callers |-> InitLoc]
    /\ hist = [c \in Callers |-> InitHist]
    /\ result = [c \in Callers |-> NoResult]
    /\ flow = f
    /\ pure = NoPure

InitTick == InitTickWith(NoFlow)

Next ==
    \E c \in Callers :
        \/ TickStart(c)
        \/ BuildHeaders(c)
        \/ SendRequest(c)
        \/ Respond(c)
        \/ RefreshCall(c)
        \/ TokenRespond(c)
        \/ SetRetryHeaders(c)
        \/ SendRetry(c)
        \/ RetryRespond(c)
        \/ ReturnCall(c)
        \/ Persist(c)

\* one tick at a time, as the host scheduler runs them
Spec == Init /\ [][Next]_vars

\* overlapping ticks
SpecConc == InitConc /\ [][Next]_vars

\* one tick under any answers; the scheduler starts it, every step of the
\* coroutine is taken, and every request is answered or times out (30 s)
SpecTick == InitTick /\ [][Next]_vars /\ WF_vars(Next)

-----------------------------------------------------------------------------
(* Properties of the API call (api.py) *)

\* the API call of caller c has returned or raised
CallFinished(c) == hist[c].callres.kind # "pending"

\* the first response of c's call was 401/403 and the refresh it triggered
\* returned normally
RetriedAfterRefresh(c) ==
    /\ CallFinished(c)
    /\ IsAuthStatus(hist[c].cFirst)
    /\ hist[c].cRefreshed

\* one refresh, one re-issued request, sent with the refreshed token
OneRefreshOneRetry(c) ==
    /\ hist[c].cRefresh = 1
    /\ hist[c].cReq = 2
    /\ hist[c].cRetryAuth
    /\ hist[c].cRetryBearer = hist[c].cGot

\* the call's result is what the answer to the re-issued request gives
ResultOfRetryResponse(c) ==
    hist[c].cRetry = "response" =>
        IF hist[c].cRetryStatus < 400
        THEN /\ hist[c].callres.kind = "return"
             /\ hist[c].callres.body = hist[c].cRetryBody
        ELSE /\ hist[c].callres.kind = "raise"
             /\ hist[c].callres.exc.kind = "HTTPError"
             /\ hist[c].callres.exc.status = hist[c].cRetryStatus

C2_SecondAuthErrorIsPanasonicAPIError ==
    \A c \in Callers :
        (/\ RetriedAfterRefresh(c)
         /\ hist[c].cRetry = "response"
         /\ IsAuthStatus(hist[c].cRetryStatus)) =>
            /\ hist[c].callres.kind = "raise"
            /\ hist[c].callres.exc.kind = "PanasonicAPIError"
            /\ hist[c].cRefresh = 1
            /\ hist[c].cReq = 2

-----------------------------------------------------------------------------
(* Properties of the poll tick (coordinator.py) *)

TickDone(c) == pc[c] = "done"

\* C3: at the end of every tick the persisted tokens are the tokens the
\* client holds, whichever path refreshed them.
C3_PersistedEqualsHeld ==
    \A c \in Callers :
        TickDone(c) =>
            /\ entry.access_token = api.access_token
            /\ entry.refresh_token = api.refresh_token

\* C4: in a tick whose first and second status fetch are answered 401,
\* whose refreshes all succeed and whose third fetch, if sent, is answered
\* 200, the tick returns the Snapshot of the third fetch after exactly one
\* refresh call.
C4_ThirdFetchSnapshot ==
    \A c \in Callers :
        (/\ TickDone(c)
         /\ Len(hist[c].statuses) >= 2
         /\ hist[c].statuses[1] = 401
         /\ hist[c].statuses[2] = 401
         /\ Len(hist[c].statuses) >= 3 => hist[c].statuses[3] = 200
         /\ hist[c].refreshOk >= 1
         /\ hist[c].refreshFail = 0) =>
            /\ result[c].kind = "Snapshot"
            /\ result[c].device_status.req = 3
            /\ hist[c].nRefresh = 1

\* a refresh attempt of caller c fails in this step
RefreshAttemptFails(c) ==
    /\ pc[c] = "await_token"
    /\ hist'[c].refreshFail = hist[c].refreshFail + 1

\* the tick of caller c ends in this step without a Snapshot, after a
\* refresh attempt of the tick has failed
FailsAfterRefreshFailure(c) ==
    /\ pc[c] # "done"
    /\ pc'[c] = "done"
    /\ hist'[c].refreshFail >= 1
    /\ result'[c].kind # "Snapshot"

\* C5: a failed refresh attempt leaves the held tokens and the persisted
\* record as they were, and a tick that fails after a failed refresh raises
\* UpdateFailed from the API error caught first (the authentication failure
\* with the 401/403 status), never from the refresh error.
C5_FailedRefreshKeepsCredential ==
    [][\A c \in Callers :
        /\ RefreshAttemptFails(c) =>
              /\ api' = api
              /\ entry' = entry
              /\ api'.refresh_token = loc[c].posted
        /\ FailsAfterRefreshFailure(c) =>
              /\ result'[c].kind = "UpdateFailed"
              /\ result'[c].from = loc'[c].err
              /\ result'[c].from.kind = "PanasonicAPIError"
              /\ result'[c].from.msg = "Authentication failed"
              /\ IsAuthStatus(result'[c].from.status)]_vars

C5_Witness ==
    \E c \in Callers :
        /\ TickDone(c)
        /\ hist[c].refreshFail = 2
        /\ result[c].kind = "UpdateFailed"
        /\ result[c].from.status = 403
        /\ api.refresh_token = 1
        /\ entry.refresh_token = 1

\* C6: when the refresh response of the recovery path has no refresh_token,
\* the held refresh_token is the one that was posted, and the persist leaves
\* the persisted refresh_token as it was.
C6_OmittedRefreshTokenKeepsPrior ==
    \A c \in Callers :
        (/\ loc[c].phase = "recovery"
         /\ loc[c].token_data.present
         /\ ~loc[c].token_data.has_rt
         /\ pc[c] \in {"persist", "headers"}) =>
            /\ api.refresh_token = loc[c].posted
            /\ hist[c].persisted =>
                   entry.refresh_token = hist[c].entryBefore.refresh_token

\* C7: when the refresh triggered by a 401/403 fails, the call raises the
\* authentication failure with the status of that response, chained to the
\* refresh error, and the request is not sent again.
C7_RefreshFailureRaisesAuthFailure ==
    \A c \in Callers :
        (/\ CallFinished(c)
         /\ IsAuthStatus(hist[c].cFirst)
         /\ ~hist[c].cRefreshed) =>
            /\ hist[c].callres.kind = "raise"
            /\ hist[c].callres.exc.kind = "PanasonicAPIError"
            /\ hist[c].callres.exc.msg = "Authentication failed"
            /\ hist[c].callres.exc.status = hist[c].cFirst
            /\ hist[c].callres.exc.cause = "PanasonicAPIError"
            /\ hist[c].callres.exc.causeMsg \in
                   {"Failed to refresh token", "No refresh token available"}
            /\ hist[c].cRefresh = 1
            /\ hist[c].cReq = 1
            /\ hist[c].cRetry = "none"

C7_Witness ==
    \E c \in Callers :
        /\ CallFinished(c)
        /\ hist[c].cFirst = 403
        /\ ~hist[c].cRefreshed
        /\ hist[c].nPost >= 1
        /\ hist[c].callres.exc.causeMsg = "Failed to refresh token"

RecoveryCycle == <<"refresh", "persist", "status", "reduction">>

IsPrefix(s, t) == Len(s) <= Len(t) /\ \A i \in 1..Len(s) : s[i] = t[i]

Catches(e) == {i \in 1..Len(e) : e[i] = "catch"}

\* a fetch of the recovery path is being prepared, is in flight or has been
\* answered
RetriedFetchStarted(c) ==
    /\ loc[c].phase = "recovery"
    /\ hist[c].events[Len(hist[c].events)] \in {"status", "reduction"}

\* C8: a tick enters the recovery path at most once; what it does after the
\* catch is, in this order, the direct refresh, the persist, the status
\* fetch, the reduction fetch; no retried fetch starts before the persist
\* has been done.
C8_RecoveryOnceInOrder ==
    \A c \in Callers :
        LET e == hist[c].events
        IN  /\ Cardinality(Catches(e)) <= 1
            /\ \A k \in Catches(e) :
                  /\ IsPrefix(SubSeq(e, k + 1, Len(e)), RecoveryCycle)
                  /\ \A i \in 1..(k - 1) : e[i] \in {"status", "reduction"}
            /\ (Catches(e) = {}) =>
                  \A i \in 1..Len(e) : e[i] \in {"status", "reduction"}
            /\ (Catches(e) # {} /\ RetriedFetchStarted(c)) =>
                  hist[c].persisted

C8_Witness ==
    \E c \in Callers :
        /\ TickDone(c)
        /\ result[c].kind = "Snapshot"
        /\ hist[c].events =
               <<"status", "reduction", "catch", "refresh", "persist",
                 "status", "reduction">>

\* C9: a tick that ends has returned a Snapshot or raised UpdateFailed; no
\* other exception leaves _async_update_data.
C9_OnlyUpdateFailedEscapes ==
    \A c \in Callers :
        TickDone(c) =>
            /\ result[c].kind \in {"Snapshot", "UpdateFailed"}
            /\ result[c].kind = "UpdateFailed" =>
                   /\ result[c].msg \in {"Error communicating with API",
                                         "Unexpected error"}
                   /\ result[c].from.kind # "none"

C9_Witness ==
    \E c \in Callers :
        /\ TickDone(c)
        /\ result[c].kind = "UpdateFailed"
        /\ loc[c].phase = "recovery"
        /\ hist[c].persisted
        /\ hist[c].callres.exc.kind = "HTTPError"

-----------------------------------------------------------------------------
(* Properties of overlapping ticks *)

RefreshInFlight == {c \in Callers : pc[c] = "await_token"}

\* C10: at most one refresh is in flight at a time, and no request is sent
\* with an access token that the client no longer holds.
C10_RefreshSerialized ==
    /\ Cardinality(RefreshInFlight) <= 1
    /\ \A c \in Callers : ~hist[c].stale


-----------------------------------------------------------------------------
(* config_flow.py: the PKCE parameters and the login URL *)

\* what secrets.token_bytes and the two calls of secrets.token_urlsafe may
\* draw in one flow: two of the possible triples
Draws ==
    {[verifier |-> "r1", state |-> "r3", nonce |-> "r5"],
     [verifier |-> "r2", state |-> "r4", nonce |-> "r6"]}

\* Strings that come out of hashing and encoding are terms: the sequence of
\* the operations applied, outermost first, ending with the random draw.
\* Two terms are equal exactly when they were built the same way.
token_bytes(r) == <<"token_bytes", r>>

token_urlsafe(r) == <<"token_urlsafe", r>>

\* base64.urlsafe_b64encode(x), padded with "="
urlsafe_b64encode(x) == <<"urlsafe_b64encode">> \o x

\* str.rstrip("=")
rstrip_pad(x) == <<"rstrip=">> \o x

\* hashlib.sha256(x).digest(); the utf-8 coding of an ASCII string leaves
\* its characters as they are
sha256(x) == <<"sha256">> \o x

\* the challenge is the verifier itself (method "plain")
generate_pkce_Plain(rv, rs, rn) ==
    LET code_verifier == rstrip_pad(urlsafe_b64encode(token_bytes(rv)))
    IN  [code_verifier |-> code_verifier, code_challenge |-> code_verifier,
         state |-> token_urlsafe(rs), nonce |-> token_urlsafe(rn)]

\* _generate_pkce
generate_pkce(rv, rs, rn) ==
    LET code_verifier == rstrip_pad(urlsafe_b64encode(token_bytes(rv)))
        code_challenge_bytes == sha256(code_verifier)
        code_challenge ==
            rstrip_pad(urlsafe_b64encode(code_challenge_bytes))
    IN  [code_verifier |-> code_verifier, code_challenge |-> code_challenge,
         state |-> token_urlsafe(rs), nonce |-> token_urlsafe(rn)]

\* _generate_login_url: the query parameters of the authorize URL, in order
generate_login_url(code_challenge, state, nonce) ==
    << <<"scope", <<"quote", "SCOPE">>>>,
       <<"audience", <<"quote", "AUTH0_AUDIENCE">>>>,
       <<"response_type", <<"code">>>>,
       <<"code_challenge", code_challenge>>,
       <<"code_challenge_method", <<"S256">>>>,
       <<"auth0Client", <<"quote", "b64encode", "auth0_client">>>>,
       <<"client_id", <<"AUTH0_CLIENT_ID">>>>,
       <<"redirect_uri", <<"quote", "REDIRECT_URI">>>>,
       <<"state", state>>,
       <<"nonce", nonce>> >>

\* the values a parameter has in a sequence of <<name, value>> pairs
ParamValues(query, name) ==
    LET Named(p) == p[1] = name
    IN  SelectSeq(query, Named)

\* async_step_user: fills the flow context and shows the login URL form
StepUser ==
    /\ flow.step \in {"none", "callback", "create_entry"}
    /\ flow.flows < MaxFlows
    /\ \E d \in Draws :
        LET pkce == generate_pkce(d.verifier, d.state, d.nonce)
            login_url == generate_login_url(pkce.code_challenge, pkce.state,
                                            pkce.nonce)
        IN  flow' = [flow EXCEPT
                        !.step = "login_url",
                        !.context = [code_verifier |-> pkce.code_verifier,
                                     state |-> pkce.state,
                                     nonce |-> pkce.nonce,
                                     login_url |-> login_url],
                        !.errors = "",
                        !.result = "form",
                        !.flows = @ + 1,
                        !.submits = 0,
                        !.last = NoSubmit]
    /\ UNCHANGED <<api, entry, coord, issued, ticks, faults, budget, active,
                   pc, loc, hist, result, pure>>

\* async_step_login_url with user input: the user continues, and
\* async_step_callback() shows the callback form without errors
StepLoginUrl ==
    /\ flow.step = "login_url"
    /\ flow' = [flow EXCEPT !.step = "callback", !.errors = "",
                            !.result = "form"]
    /\ UNCHANGED <<api, entry, coord, issued, ticks, faults, budget, active,
                   pc, loc, hist, result, pure>>

-----------------------------------------------------------------------------
(* config_flow.py: the callback step *)

\* what the user may paste: nothing but blanks, a text urlparse rejects, or
\* a URL with a query (a parameter value "" is a blank value; a state "r3"
\* is the state token of that draw, "x" the token of no draw; the code "c2"
\* comes only with the state and nonce "x")
Queries ==
    { <<>>,
      << <<"state", "r3">> >>,
      << <<"error", "access_denied">>, <<"state", "r3">> >>,
      << <<"code", "">>, <<"state", "r3">> >>,
      << <<"code", "c1">>, <<"state", "r3">> >>,
      << <<"code", "c1">> >>,
      << <<"state", "x">>, <<"nonce", "x">>, <<"code", "c2">>,
         <<"code", "c1">> >> }

CallbackUrls ==
    {[text |-> "blank", malformed |-> FALSE, query |-> <<>>],
     [text |-> "url", malformed |-> TRUE, query |-> <<>>]}
    \cup {[text |-> "url", malformed |-> FALSE, query |-> q] : q \in Queries}

\* the code is read only from a URL that has a state
parse_qs_StateRequired(query, name) ==
    LET Kept(p) == p[1] = name /\ p[2] # ""
        IsState(p) == p[1] = "state"
    IN  IF SelectSeq(query, IsState) = <<>> THEN <<>>
        ELSE SelectSeq(query, Kept)

\* parse_qs(parsed.query)[name]: the values of the parameter, blank values
\* dropped (keep_blank_values is off)
parse_qs(query, name) ==
    LET Kept(p) == p[1] = name /\ p[2] # ""
    IN  SelectSeq(query, Kept)

\* a text urlparse rejects is reported as a failure of its own
extract_code_from_callback_ParseFailure(callback_url) ==
    IF callback_url.malformed
    THEN [none |-> TRUE, value |-> "parse failure"]
    ELSE LET values == parse_qs(callback_url.query, "code")
         IN  IF values = <<>>
             THEN NoCode
             ELSE [none |-> FALSE, value |-> values[1][2]]

\* _extract_code_from_callback: params.get("code", [None])[0], and None when
\* urlparse or parse_qs raises
extract_code_from_callback(callback_url) ==
    IF callback_url.malformed
    THEN NoCode
    ELSE LET values == parse_qs(callback_url.query, "code")
         IN  IF values = <<>>
             THEN NoCode
             ELSE [none |-> FALSE, value |-> values[1][2]]

\* the kind of text the user pasted (observation only)
UrlClass(callback_url) ==
    IF callback_url.text = "blank" THEN "blank"
    ELSE IF callback_url.malformed THEN "malformed"
    ELSE IF parse_qs(callback_url.query, "code") = <<>> THEN "no code"
    ELSE "code"

\* "not code"
CodeFalsy(code) == code.none \/ code.value = ""

\* _exchange_code_for_tokens: response.json() of a 2xx answer, None otherwise;
\* the answer of the n-th exchange carries tokens 2n+1 and 2n+2
exchange_code_for_tokens(o, n) ==
    IF o.ok
    THEN [present |-> TRUE, has_at |-> o.has_at,
          at |-> IF o.has_at THEN 2 * n + 1 ELSE None,
          has_rt |-> o.has_rt,
          rt |-> IF o.has_rt THEN 2 * n + 2 ELSE None,
          other |-> o.other]
    ELSE NoTokenData

\* the appliances a user-info answer may list
Fridge1 == [eoj |-> "03B7", has_info |-> TRUE, applianceId |-> "A+b=",
            productCode |-> "NR-F"]

Fridge2 == [eoj |-> "03B7", has_info |-> TRUE, applianceId |-> "Cd/e",
            productCode |-> "NR-E"]

AirCon == [eoj |-> "0130", has_info |-> TRUE, applianceId |-> "Xy-z",
           productCode |-> "CS-X"]

\* a refrigerator whose record lacks "info"
BareFridge == [eoj |-> "03B7", has_info |-> FALSE, applianceId |-> "",
               productCode |-> ""]

UserInfos ==
    {[myAppliances |-> l] :
        l \in { <<>>, <<AirCon>>, <<Fridge1>>, <<AirCon, Fridge1>>,
                <<Fridge2, Fridge1>>, <<AirCon, Fridge2, Fridge1>>,
                <<BareFridge, Fridge1>> }}

\* what the user-info endpoint answers
UserInfoOutcomes ==
    {[kind |-> "response", status |-> 200, user_info |-> u] : u \in UserInfos}
    \cup {[kind |-> "response", status |-> s, user_info |-> NoUserInfo] :
            s \in Statuses \ {200}}
    \cup {[kind |-> "ConnectionError", status |-> None,
           user_info |-> NoUserInfo]}

\* what an API call of the flow's client gives back
CallReturn(value, requests, posts) ==
    [raised |-> FALSE, exc |-> NoExc, value |-> value,
     requests |-> requests, posts |-> posts]

CallRaise(exc, requests, posts) ==
    [raised |-> TRUE, exc |-> exc, value |-> NoUserInfo,
     requests |-> requests, posts |-> posts]

\* get_user_info: response.raise_for_status(); return response.json()
UserInfoResult(o, requests, posts) ==
    IF o.status >= 400
    THEN CallRaise(HTTPError([status |-> o.status, body |-> NoBody]),
                   requests, posts)
    ELSE CallReturn(o.user_info, requests, posts)

\* get_user_info of client a through _make_request_with_retry: o answers the
\* first request, t the token endpoint, r the re-issued request
get_user_info(a, o, t, r) ==
    LET response == [status |-> o.status, body |-> NoBody]
    IN  IF o.kind = "ConnectionError"
        THEN CallRaise(ConnectionError, 1, 0)
        ELSE IF ~IsAuthStatus(o.status)
        THEN UserInfoResult(o, 1, 0)
        ELSE IF ~HasRefreshToken(a)
        THEN CallRaise(AuthenticationFailed(response, NoRefreshTokenError),
                       1, 0)
        ELSE IF ~t.ok
        THEN CallRaise(AuthenticationFailed(response, RefreshError(t.why)),
                       1, 1)
        ELSE IF r.kind = "ConnectionError"
        THEN CallRaise(AuthenticationFailed(response, ConnectionError), 2, 1)
        ELSE UserInfoResult(r, 2, 1)

\* the loop over myAppliances: the index of the first appliance at or after
\* i whose eoj is "03B7", 0 when there is none
RECURSIVE FirstFridgeFrom(_, _)
FirstFridgeFrom(appliances, i) ==
    IF i > Len(appliances)
    THEN 0
    ELSE IF appliances[i].eoj = "03B7"
    THEN i
    ELSE FirstFridgeFrom(appliances, i + 1)

\* the loop takes the last refrigerator of the list
FirstFridge_Last(appliances) ==
    LET Is(i) == appliances[i].eoj = "03B7"
        at == {i \in 1..Len(appliances) : Is(i)}
    IN  IF at = {} THEN 0 ELSE CHOOSE i \in at : \A j \in at : j <= i

FirstFridge(appliances) == FirstFridgeFrom(appliances, 1)

\* PanasonicAPI(access_token=access_token): no refresh token
FlowClient(access_token) ==
    [access_token |-> access_token, refresh_token |-> None]

\* entry_data: refresh_token is stored only when it is truthy
EntryData(access_token, refresh_token, appliance_id, product_code) ==
    [access_token |-> access_token,
     refresh_token |-> IF Truthy(refresh_token) THEN refresh_token ELSE None,
     appliance_id |-> appliance_id, product_code |-> product_code]

\* _abort_if_unique_id_configured: an entry with this unique id exists
UniqueIdConfigured(entries, appliance_id) ==
    \E i \in 1..Len(entries) : entries[i].appliance_id = appliance_id

\* the form is shown again for a PKCE session that has been dropped
ShowCallbackForm_FreshContext(f, error, sub) ==
    [f EXCEPT !.step = "callback", !.result = "form", !.errors = error,
              !.submits = @ + 1, !.last = sub, !.context = NoContext]

\* async_show_form(step_id="callback", errors={"base": error})
ShowCallbackForm(f, error, sub) ==
    [f EXCEPT !.step = "callback", !.result = "form", !.errors = error,
              !.submits = @ + 1, !.last = sub]

\* async_create_entry(data=entry_data)
CreateEntry(f, data, sub) ==
    [f EXCEPT !.step = "create_entry", !.result = "create_entry",
              !.errors = "", !.submits = @ + 1,
              !.entries = Append(@, data),
              !.last = [sub EXCEPT !.created = data]]

\* the exception leaves the step
CallbackExcept_Escapes(f, sub, exc) ==
    [f EXCEPT !.step = "callback", !.result = "exception", !.errors = "",
              !.submits = @ + 1, !.last = [sub EXCEPT !.caught = exc]]

\* async_step_callback: except Exception -> errors["base"] = "unknown"
CallbackExcept(f, sub, exc) ==
    ShowCallbackForm(f, "unknown", [sub EXCEPT !.caught = exc])

\* async_step_callback with user input: callback_url is the pasted text, x
\* the answer to the exchange, o, t and r the answers to get_user_info
async_step_callback(f, callback_url, x, o, t, r) ==
    LET sub0 == [NoSubmit EXCEPT !.url = UrlClass(callback_url)]
        code == extract_code_from_callback(callback_url)
        sub1 == [sub0 EXCEPT !.code = code]
        token_response ==
            exchange_code_for_tokens(x, (f.flows - 1) * MaxSubmits + f.submits)
        sub2 == [sub1 EXCEPT !.exchanged = TRUE, !.sent_code = code.value,
                             !.sent_verifier = f.context.code_verifier,
                             !.token_response = token_response]
        access_token == IF token_response.has_at THEN token_response.at
                        ELSE None
        refresh_token == IF token_response.has_rt THEN token_response.rt
                         ELSE None
        call == get_user_info(FlowClient(access_token), o, t, r)
        user_info == call.value
        sub3 == [sub2 EXCEPT !.asked = TRUE, !.user_info = user_info,
                             !.user_info_requests = call.requests,
                             !.token_posts = call.posts]
        appliances == user_info.myAppliances
        at == FirstFridge(appliances)
        fridge_appliance == appliances[at]
        appliance_id == fridge_appliance.applianceId
        product_code == fridge_appliance.productCode
    IN  IF callback_url.text = "blank"
        THEN ShowCallbackForm(f, "callback_url_required", sub0)
        ELSE IF CodeFalsy(code)
        THEN ShowCallbackForm(f, "invalid_callback_url", sub1)
        ELSE IF ~(token_response.present /\ TokenDataTruthy(token_response))
        THEN ShowCallbackForm(f, "token_exchange_failed", sub2)
        ELSE IF ~Truthy(access_token)
        THEN ShowCallbackForm(f, "no_access_token", sub2)
        ELSE IF call.raised
        THEN CallbackExcept(f, sub3, call.exc)
        ELSE IF appliances = <<>>
        THEN ShowCallbackForm(f, "invalid_token", sub3)
        ELSE IF at = 0
        THEN ShowCallbackForm(f, "no_fridge_found", sub3)
        ELSE IF ~fridge_appliance.has_info
        THEN CallbackExcept(f, sub3, Exc("KeyError", "info", None, "none", ""))
        ELSE IF UniqueIdConfigured(f.entries, appliance_id)
        THEN CallbackExcept(f, sub3, Exc("AbortFlow", "already_configured",
                                         None, "none", ""))
        ELSE CreateEntry(f, EntryData(access_token, refresh_token,
                                      appliance_id, product_code), sub3)

\* an endpoint that is not asked gives no answer
NoTokenAnswer == [ok |-> FALSE, why |-> "not asked", has_at |-> FALSE,
                  has_rt |-> FALSE, other |-> FALSE]

NoUserInfoAnswer == [kind |-> "not asked", status |-> None,
                     user_info |-> NoUserInfo]

\* the token endpoint answers the exchange only when a code is sent to it
ExchangeAnswers(callback_url) ==
    IF callback_url.text = "blank"
       \/ CodeFalsy(extract_code_from_callback(callback_url))
    THEN {NoTokenAnswer}
    ELSE TokenOutcomes

\* the user-info endpoint answers only when the exchange gave an access token
UserInfoAnswers(x) ==
    IF x.ok /\ x.has_at THEN UserInfoOutcomes ELSE {NoUserInfoAnswer}

\* the answers to the refresh and to the re-issued request of a call of
\* client a: only a client with a refresh token asks for them
RecoveryAnswers(a) ==
    IF HasRefreshToken(a)
    THEN TokenOutcomes \X UserInfoOutcomes
    ELSE {<<NoTokenAnswer, NoUserInfoAnswer>>}

\* the user submits the callback form
StepCallback ==
    /\ flow.step = "callback"
    /\ flow.result = "form"
    /\ flow.submits < MaxSubmits
    /\ \E callback_url \in CallbackUrls :
        \E x \in ExchangeAnswers(callback_url) :
            \E o \in UserInfoAnswers(x),
               tr \in RecoveryAnswers(FlowClient(None)) :
                flow' = async_step_callback(flow, callback_url, x, o,
                                            tr[1], tr[2])
    /\ UNCHANGED <<api, entry, coord, issued, ticks, faults, budget, active,
                   pc, loc, hist, result, pure>>

\* no entry exists and nothing polls
NoPolling ==
    /\ entry = NoEntry
    /\ api = [access_token |-> None, refresh_token |-> None]
    /\ coord = [appliance_id |-> "", product_code |-> ""]
    /\ issued = 0
    /\ ticks = 0
    /\ faults = 0
    /\ budget = 0
    /\ active = {}
    /\ pc = [c \in Callers |-> "idle"]
    /\ loc = [c \in Callers |-> InitLoc]
    /\ hist = [c \in Callers |-> InitHist]
    /\ result = [c \in Callers |-> NoResult]

\* no flow has been started
InitFlow ==
    /\ flow = NoFlow
    /\ pure = NoPure
    /\ NoPolling

NextFlow ==
    \/ StepUser
    \/ StepLoginUrl
    \/ StepCallback

\* the setup flows of one installation, one after the other
SpecFlow == InitFlow /\ [][NextFlow]_vars

\* the setup flows have been run and the entry polls
InitInstalled == InitTickWith([NoFlow EXCEPT !.flows = MaxFlows])

\* both clients of the installation: the client of the setup flows, and
\* afterwards the client of the coordinator in a tick under any answers
SpecClient == (InitFlow \/ InitInstalled) /\ [][NextFlow \/ Next]_vars

-----------------------------------------------------------------------------
(* Properties of the config flow *)

\* the entry the last submission created is built from what that submission
\* extracted and was answered
EntryFromSubmission ==
    LET sub == flow.last
        td == sub.token_response
        appliances == sub.user_info.myAppliances
        created == sub.created
    IN  /\ flow.result = "create_entry"
        /\ ~sub.code.none
        /\ sub.exchanged /\ sub.sent_code = sub.code.value
        /\ td.has_at /\ td.at # None
        /\ created.access_token = td.at
        /\ created.refresh_token = (IF td.has_rt THEN td.rt ELSE None)
        /\ \E k \in 1..Len(appliances) :
            /\ appliances[k].eoj = "03B7"
            /\ \A j \in 1..(k - 1) : appliances[j].eoj # "03B7"
            /\ created.appliance_id = appliances[k].applianceId
            /\ created.product_code = appliances[k].productCode

\* C11: a config entry is created only when a code was extracted, the
\* exchange answered with an access_token and user-info lists an appliance
\* with eoj "03B7"; the entry holds that access_token, the refresh_token when
\* one was returned, and the applianceId and productCode of the first such
\* appliance of the list
C11_EntryOnlyFromValidSetup ==
    [][flow'.entries # flow.entries
        => /\ flow'.entries = Append(flow.entries, flow'.last.created)
           /\ EntryFromSubmission']_vars

\* an entry was created from a list whose first appliance is no refrigerator
\* and that has two refrigerators
C11_Witness ==
    /\ flow.result = "create_entry"
    /\ flow.last.user_info.myAppliances = <<AirCon, Fridge2, Fridge1>>
    /\ flow.last.created.appliance_id = Fridge2.applianceId
    /\ flow.last.created.refresh_token # None
    /\ flow.entries = <<flow.last.created>>

\* what the callback step answers to a well-formed URL that has no code
NoCodeAnswer ==
    async_step_callback(flow,
                        [text |-> "url", malformed |-> FALSE,
                         query |-> << <<"state", "r3">> >>],
                        NoTokenAnswer, NoUserInfoAnswer, NoTokenAnswer,
                        NoUserInfoAnswer)

ErrorKeys ==
    {"callback_url_required", "invalid_callback_url", "token_exchange_failed",
     "no_access_token", "invalid_token", "no_fridge_found", "unknown"}

\* the last submission failed: empty input, no code, failed exchange, no
\* access_token, failed or empty user-info, no refrigerator, or an exception
SubmissionFailed ==
    LET sub == flow.last
        td == sub.token_response
        appliances == sub.user_info.myAppliances
    IN  \/ sub.url # "code"
        \/ ~td.present
        \/ ~td.has_at
        \/ sub.caught # NoExc
        \/ appliances = <<>>
        \/ \A i \in 1..Len(appliances) : appliances[i].eoj # "03B7"

\* C13: every failure of the callback step shows the callback form again
\* with an error key; no exception leaves the step, no entry is created and
\* the flow stays at the callback step with its context
C13_FailureReshowsForm ==
    [][flow'.submits = flow.submits + 1
        => /\ flow'.result \in {"form", "create_entry"}
           /\ SubmissionFailed'
                => /\ flow'.result = "form"
                   /\ flow'.step = "callback"
                   /\ flow'.errors \in ErrorKeys
                   /\ flow'.entries = flow.entries
                   /\ flow'.context = flow.context]_vars

\* a second submission of a flow failed with an exception of the client and
\* the form is shown with "unknown"
C13_Witness ==
    /\ flow.submits = 2
    /\ flow.last.caught.kind = "PanasonicAPIError"
    /\ flow.result = "form"
    /\ flow.errors = "unknown"

-----------------------------------------------------------------------------
(* Properties of the API calls and of the poll tick, continued *)

\* c's call made one request, no refresh, and left the client's tokens alone
NoRecoveryInCall(c) ==
    /\ hist[c].cReq = 1
    /\ hist[c].cRefresh = 0
    /\ api = hist[c].cApi

ResourceInFlight(c) == pc[c] \in {"await", "retry_await"}

\* C15: polling never changes the appliance identity: appliance_id and
\* product_code of the coordinator and of the persisted record stay what they
\* were at setup, and every status and reduction request is sent for that
\* appliance_id
C15_PollingKeepsApplianceIdentity ==
    [][/\ coord' = coord
       /\ entry'.appliance_id = entry.appliance_id
       /\ entry'.product_code = entry.product_code
       /\ coord'.appliance_id = entry'.appliance_id
       /\ coord'.product_code = entry'.product_code
       /\ \A c \in Callers :
            ResourceInFlight(c)' => loc'[c].appliance_id = entry.appliance_id
      ]_vars

\* the recovery path has persisted new tokens and its status request is in
\* flight
C15_Witness ==
    \E c \in Callers :
        /\ hist[c].persisted
        /\ entry.access_token # 1
        /\ loc[c].phase = "recovery"
        /\ ResourceInFlight(c)
        /\ loc[c].appliance_id \in ApplianceIds

\* C16: a Snapshot is atomic: its device_status and its electricity are the
\* bodies of a status fetch and of a reduction fetch that returned in the
\* same attempt of the tick (both first attempt or both recovery), and
\* electricity_usage_kwh is computed from that electricity; a tick that
\* returns no Snapshot returns no part of one
C16_SnapshotAtomic ==
    \A c \in Callers :
        LET ds == result[c].device_status
            el == result[c].electricity
        IN  IF result[c].kind = "Snapshot"
            THEN /\ ds.call = "status" /\ el.call = "reduction"
                 /\ ds.attempt \in {"initial", "recovery"}
                 /\ el.attempt = ds.attempt
                 /\ 0 < ds.req /\ ds.req < el.req /\ el.req <= hist[c].nReq
                 /\ result[c].electricity_usage_kwh[1] = 750 - el.amount
                 /\ result[c].electricity_usage_kwh[2] = 31
            ELSE ds = NoBody /\ el = NoBody

\* the first attempt fetched the status and failed on the reduction, and the
\* recovery returned a Snapshot
C16_Witness ==
    \E c \in Callers :
        /\ result[c].kind = "Snapshot"
        /\ result[c].device_status.attempt = "recovery"
        /\ Len(hist[c].events) >= 3
        /\ hist[c].events[2] = "reduction"
        /\ hist[c].events[3] = "catch"
        /\ result[c].electricity.amount = 1000

\* the HTTP requests of c's tick that are sent and not yet answered
InFlight(c) ==
    {k \in {"resource", "token"} :
        \/ k = "resource" /\ ResourceInFlight(c)
        \/ k = "token" /\ pc[c] = "await_token"}

\* C17: the calls of one tick are sequential: at most one HTTP request of the
\* tick is in flight; the reduction request of an attempt is sent only after
\* the status call of that attempt has returned, so after a failed status
\* call no reduction request of that attempt is sent
C17_CallsSequential ==
    \A c \in Callers :
        LET e == hist[c].events
        IN  /\ Cardinality(InFlight(c)) <= 1
            /\ \A i \in 1..Len(e) :
                  e[i] = "reduction" => (i > 1 /\ e[i - 1] = "status")
            /\ (ResourceInFlight(c) /\ loc[c].call = "reduction")
                  => /\ loc[c].device_status.call = "status"
                     /\ loc[c].device_status.attempt = loc[c].phase
                     /\ loc[c].device_status.req < hist[c].nReq
            /\ (hist[c].callres.kind = "raise" /\ loc[c].call = "status")
                  => e[Len(e)] # "reduction"

\* the reduction request of the recovery path is in flight
C17_Witness ==
    \E c \in Callers :
        /\ ResourceInFlight(c)
        /\ loc[c].call = "reduction"
        /\ loc[c].phase = "recovery"
        /\ loc[c].device_status.attempt = "recovery"

-----------------------------------------------------------------------------
(* Properties of the PKCE parameters *)

\* C18: the code_challenge of the authorization URL the flow shows is the
\* unpadded base64url coding of the SHA-256 digest of the code_verifier the
\* flow keeps in its context (and sends with the exchange), with method S256
C18_ChallengeIsS256OfVerifier ==
    flow.step # "none"
        => /\ ParamValues(flow.context.login_url, "code_challenge")
                = << <<"code_challenge",
                       rstrip_pad(urlsafe_b64encode(
                           sha256(flow.context.code_verifier)))>> >>
           /\ ParamValues(flow.context.login_url, "code_challenge_method")
                = << <<"code_challenge_method", <<"S256">>>> >>
           /\ flow.last.exchanged
                => flow.last.sent_verifier = flow.context.code_verifier

\* the second flow of the installation has sent its verifier with an exchange
C18_Witness ==
    /\ flow.flows = 2
    /\ flow.last.exchanged
    /\ flow.context.code_verifier
         = rstrip_pad(urlsafe_b64encode(token_bytes("r2")))
    /\ Len(flow.context.login_url) = 10

-----------------------------------------------------------------------------
(* api.py: the pure functions, applied to arguments drawn at the start.   *)
(* A string is the sequence of its characters.                            *)

\* the characters an appliance id is made of here: letters and digits, "-",
\* the characters base64 adds, and "%"
IdChars == {"A", "2", "B", "-", "+", "=", "/", "%"}

\* the appliance ids of at most n characters
RECURSIVE IdsUpTo(_)
IdsUpTo(n) ==
    IF n = 0
    THEN {<<>>}
    ELSE LET shorter == IdsUpTo(n - 1)
         IN  shorter \cup {Append(id, ch) : id \in shorter, ch \in IdChars}

\* urllib.parse.quote never escapes letters, digits and "_.-~"
AlwaysSafe == {"A", "2", "B", "-"}

\* "%XX", XX the code of the character in upper-case hexadecimal
PercentCode(ch) ==
    CASE ch = "+" -> <<"%", "2", "B">>
      [] ch = "=" -> <<"%", "3", "D">>
      [] ch = "/" -> <<"%", "2", "F">>
      [] ch = "%" -> <<"%", "2", "5">>

\* urllib.parse.quote(string, safe)
RECURSIVE quote(_, _)
quote(string, safe) ==
    IF string = <<>>
    THEN <<>>
    ELSE (IF Head(string) \in AlwaysSafe \cup safe
          THEN <<Head(string)>>
          ELSE PercentCode(Head(string)))
         \o quote(Tail(string), safe)

\* quote(appliance_id) with the default safe="/"
url_encode_appliance_id_DefaultSafe(appliance_id) == quote(appliance_id, {"/"})

\* _url_encode_appliance_id: quote(appliance_id, safe="")
url_encode_appliance_id(appliance_id) == quote(appliance_id, {})

\* percent-decoding (urllib.parse.unquote): "%XX" gives the character of
\* code XX, a "%" that starts no code stays
RECURSIVE unquote(_)
unquote(string) ==
    IF string = <<>>
    THEN <<>>
    ELSE LET coded == {ch \in IdChars \ AlwaysSafe :
                          /\ Len(string) >= 3
                          /\ SubSeq(string, 1, 3) = PercentCode(ch)}
         IN  IF coded # {}
             THEN <<CHOOSE ch \in coded : TRUE>>
                  \o unquote(SubSeq(string, 4, Len(string)))
             ELSE <<Head(string)>> \o unquote(Tail(string))

\* calculate_electricity_usage(cost_reduction) is evaluated
ApplyUsage ==
    /\ pure.fn = "usage"
    /\ pure.stage = "arg"
    /\ pure' = [pure EXCEPT !.stage = "out",
                            !.out = calculate_electricity_usage(pure.arg)]
    /\ UNCHANGED <<api, entry, coord, issued, ticks, faults, budget, active,
                   pc, loc, hist, result, flow>>

\* _url_encode_appliance_id(appliance_id) is evaluated
ApplyQuote ==
    /\ pure.fn = "quote"
    /\ pure.stage = "arg"
    /\ pure' = [pure EXCEPT !.stage = "out",
                            !.out = url_encode_appliance_id(pure.arg)]
    /\ UNCHANGED <<api, entry, coord, issued, ticks, faults, budget, active,
                   pc, loc, hist, result, flow>>

\* the server decodes the path segment
ApplyUnquote ==
    /\ pure.fn = "quote"
    /\ pure.stage = "out"
    /\ pure' = [pure EXCEPT !.stage = "back", !.back = unquote(pure.out)]
    /\ UNCHANGED <<api, entry, coord, issued, ticks, faults, budget, active,
                   pc, loc, hist, result, flow>>

\* the argument is any cost reduction or any appliance id within the bounds
InitPure ==
    /\ flow = NoFlow
    /\ NoPolling
    /\ \/ \E r \in (0 - MaxReduction)..MaxReduction :
            pure = [NoPure EXCEPT !.fn = "usage", !.stage = "arg", !.arg = r]
       \/ \E id \in IdsUpTo(MaxIdLen) :
            pure = [NoPure EXCEPT !.fn = "quote", !.stage = "arg", !.arg = id]

NextPure ==
    \/ ApplyUsage
    \/ ApplyQuote
    \/ ApplyUnquote

SpecPure == InitPure /\ [][NextPure]_vars

-----------------------------------------------------------------------------
(* Properties of the pure functions *)

\* the sign of the quotient <<numerator, denominator>>
Sign(q) ==
    IF q[1] * q[2] > 0 THEN 1 ELSE IF q[1] * q[2] < 0 THEN 0 - 1 ELSE 0

\* C19: calculate_electricity_usage is a total function of the integer cost
\* reduction: it has a value for every reduction (the divisor is not zero),
\* the value is (750 - reduction) / 31, which is 0 for 750, positive below
\* 750 and negative above 750, and evaluating it changes nothing else
C19_UsageIsTotalAndSigned ==
    (pure.fn = "usage" /\ pure.stage = "out")
        => /\ pure.out[2] = 31
           /\ pure.out[1] = 750 - pure.arg
           /\ pure.arg = 750 => Sign(pure.out) = 0
           /\ pure.arg < 750 => Sign(pure.out) = 1
           /\ pure.arg > 750 => Sign(pure.out) = 0 - 1
           /\ pure.arg = 0 => (100 * pure.out[1]) \div pure.out[2] = 2419
           /\ flow = NoFlow /\ NoPolling

\* the usage of a reduction above 750 has been computed
C19_Witness ==
    /\ pure.fn = "usage"
    /\ pure.stage = "out"
    /\ pure.arg = 1000
    /\ pure.out[1] < 0

\* C20: the coding of the appliance id round-trips: the coded path segment
\* has no "+", "=" or "/" in it, and percent-decoding it gives the id back
C20_ApplianceIdRoundTrips ==
    /\ (pure.fn = "quote" /\ pure.stage \in {"out", "back"})
        => \A i \in 1..Len(pure.out) : pure.out[i] \notin {"+", "=", "/"}
    /\ (pure.fn = "quote" /\ pure.stage = "back")
        => pure.back = pure.arg

\* an id with "/", "+" and "=" in it has been coded and decoded
C20_Witness ==
    /\ pure.fn = "quote"
    /\ pure.stage = "back"
    /\ pure.arg = <<"/", "+", "=">>
    /\ Len(pure.out) = 9

-----------------------------------------------------------------------------
(* Properties of the config flow, continued *)

\* the query without its state and nonce parameters
WithoutStateAndNonce(query) ==
    LET Other(p) == p[1] \notin {"state", "nonce"}
    IN  SelectSeq(query, Other)

\* the state and nonce a callback URL may come back with: none, those of
\* either draw, or those of no draw
ReturnedStates ==
    { <<>>,
      << <<"state", "r3">> >>,
      << <<"state", "r4">>, <<"nonce", "r6">> >>,
      << <<"state", "x">>, <<"nonce", "x">> >> }

\* the pasted text with its state and nonce replaced
WithState(callback_url, returned) ==
    [callback_url EXCEPT !.query = WithoutStateAndNonce(@) \o returned]

\* the callback form is shown and can be submitted: for the first time, or
\* again after a submission that sent no exchange (the step reads nothing
\* of an earlier submission)
CallbackFormOpen ==
    /\ flow.step = "callback"
    /\ flow.result = "form"
    /\ flow.submits < MaxSubmits
    /\ ~flow.last.exchanged

\* C21: the flow does not validate the returned state or nonce: two
\* submissions of the callback form that differ only in the state or nonce
\* of the URL (missing or different from the generated value included),
\* answered alike by the servers, take the same transitions and give the
\* same result
C21_StateNotValidated ==
    CallbackFormOpen
        => \A u \in CallbackUrls, s \in ReturnedStates :
             \A x \in ExchangeAnswers(u) :
                \A o \in UserInfoAnswers(x),
                   tr \in RecoveryAnswers(FlowClient(None)) :
                    async_step_callback(flow, WithState(u, s), x, o,
                                        tr[1], tr[2])
                      = async_step_callback(flow, u, x, o, tr[1], tr[2])

\* a second entry was created from a URL whose state and nonce are not the
\* generated ones (the code "c2" comes only with them)
C21_Witness ==
    /\ flow.result = "create_entry"
    /\ flow.last.code = [none |-> FALSE, value |-> "c2"]
    /\ flow.flows = 2
    /\ Len(flow.entries) = 2

-----------------------------------------------------------------------------
(* Properties of the API call and of the poll tick, continued *)

\* the API call of caller c raised 'Authentication failed: <status>'
RaisedAuthenticationFailed(c) ==
    /\ hist[c].callres.kind = "raise"
    /\ hist[c].callres.exc.kind = "PanasonicAPIError"
    /\ hist[c].callres.exc.msg = "Authentication failed"

\* C22 as stated: a call raises the authentication failure only when its
\* refresh failed; after a successful refresh no failure of the re-issued
\* request is reported so
C22_AuthFailureOnlyWhenRefreshFailed ==
    \A c \in Callers :
        RaisedAuthenticationFailed(c) => ~hist[c].cRefreshed

\* C22 amended: a call raises the authentication failure when its refresh
\* failed, and also when the refresh succeeded and the re-issued request
\* itself raised (the failure then carries the status of the first response
\* and, in the first attempt of a tick, starts the recovery of the tick); a
\* re-issued request that is answered is never reported so
C22_AuthFailureWhenRefreshOrRetryRaised ==
    \A c \in Callers :
        /\ RaisedAuthenticationFailed(c) =>
               /\ hist[c].callres.exc.status = hist[c].cFirst
               /\ IsAuthStatus(hist[c].cFirst)
               /\ loc[c].phase = "recovery"
               /\ \/ /\ ~hist[c].cRefreshed
                     /\ hist[c].cReq = 1
                     /\ hist[c].callres.exc.causeMsg \in
                            {"No refresh token available",
                             "Failed to refresh token"}
                  \/ /\ hist[c].cRefreshed
                     /\ hist[c].cReq = 2
                     /\ hist[c].cRetry = "ConnectionError"
                     /\ hist[c].callres.exc.cause = "ConnectionError"
        /\ (CallFinished(c) /\ hist[c].cRetry = "ConnectionError") =>
               RaisedAuthenticationFailed(c)
        /\ (CallFinished(c) /\ hist[c].cRetry = "response") =>
               ~RaisedAuthenticationFailed(c)

\* the refresh of the first call succeeded, the re-issued request raised,
\* and the tick has entered its recovery and calls refresh again
C22_Witness ==
    \E c \in Callers :
        /\ RaisedAuthenticationFailed(c)
        /\ hist[c].cRefreshed
        /\ hist[c].cRetry = "ConnectionError"
        /\ hist[c].refreshOk = 1
        /\ pc[c] = "refresh"
        /\ loc[c].ret = "orch"

\* C23: every poll tick terminates, with a Snapshot or with update-failed,
\* whatever the servers answer, and makes at most 8 resource-API requests
\* and at most 5 token-refresh calls
C23_TickTerminatesBounded ==
    \A c \in {1} :
        (pc[c] \notin {"idle", "done"})
            ~> (/\ pc[c] = "done"
                /\ result[c].kind \in {"Snapshot", "UpdateFailed"}
                /\ hist[c].nReq <= 8
                /\ hist[c].nRefresh <= 5
                /\ hist[c].nPost <= hist[c].nRefresh)

\* a tick that made 8 requests and 5 refresh calls and returned a Snapshot
C23_Witness ==
    /\ pc[1] = "done"
    /\ result[1].kind = "Snapshot"
    /\ hist[1].nReq = 8
    /\ hist[1].nRefresh = 5
    /\ hist[1].nPost = 5

\* the persisted record holds an access token
EntryHoldsAccessToken == Truthy(entry.access_token)

\* C24: the client, which holds an access token from its construction,
\* never holds an absent one afterwards, whatever a refresh answers, and
\* the orchestrator never persists an absent access_token
C24_AccessTokenNeverCleared ==
    /\ Truthy(api.access_token)
    /\ EntryHoldsAccessToken

-----------------------------------------------------------------------------
(* Properties of a client without refresh token *)

\* the submission raised 'Authentication failed' because the flow's client
\* has no refresh token
FlowAuthenticationFailed(f) ==
    /\ f.step = "callback"
    /\ f.result = "form"
    /\ f.errors = "unknown"
    /\ f.last.caught.kind = "PanasonicAPIError"
    /\ f.last.caught.msg = "Authentication failed"
    /\ f.last.caught.causeMsg = "No refresh token available"
    /\ f.last.user_info_requests = 1
    /\ f.last.token_posts = 0

\* the user-info call of any submission that gets that far, answered 401 or
\* 403, ends as the form error and creates no entry
UnauthorizedUserInfoIsFormError ==
    (flow.step = "callback" /\ flow.result = "form"
     /\ flow.submits < MaxSubmits)
        => \A u \in CallbackUrls, x \in TokenOutcomes :
             \A o \in {a \in UserInfoOutcomes : a.status \in {401, 403}} :
                (~CodeFalsy(extract_code_from_callback(u))
                 /\ u.text # "blank" /\ x.ok /\ x.has_at)
                    => LET f == async_step_callback(flow, u, x, o,
                                    NoTokenAnswer, NoUserInfoAnswer)
                       IN  /\ FlowAuthenticationFailed(f)
                           /\ f.last.caught.status = o.status
                           /\ f.entries = flow.entries

\* C25: a client that holds no refresh_token never contacts the token
\* endpoint: its refresh raises before any request is sent and leaves the
\* access_token unchanged; the setup flow, whose client has the access
\* token only, never sends a refresh request, and a 401/403 on its
\* user-info call ends as a form error after exactly one user-info request
C25_NoRefreshWithoutRefreshToken ==
    /\ ~Truthy(api.refresh_token) =>
           /\ api.access_token = entry.access_token
           /\ \A c \in Callers :
                /\ pc[c] # "await_token"
                /\ hist[c].nPost = 0
                /\ hist[c].refreshOk = 0
                /\ RaisedAuthenticationFailed(c) =>
                       /\ hist[c].cReq = 1
                       /\ hist[c].callres.exc.causeMsg =
                              "No refresh token available"
    /\ flow.last.token_posts = 0
    /\ flow.last.user_info_requests <= 1
    /\ UnauthorizedUserInfoIsFormError

\* the user-info call of a setup flow was answered 403: one request, no
\* refresh request, the form with an error
C25_Witness ==
    /\ FlowAuthenticationFailed(flow)
    /\ flow.last.caught.status = 403
    /\ flow.last.asked
    /\ flow.flows = 2

\* a tick of a client without refresh token called refresh, which raised
\* before any request
C25_WitnessTick ==
    /\ ~Truthy(api.refresh_token)
    /\ RaisedAuthenticationFailed(1)
    /\ hist[1].nRefresh = 1
    /\ hist[1].nPost = 0
    /\ api.access_token = 1

-----------------------------------------------------------------------------
(* Properties of the config flow: the unique id and the PKCE session *)

\* no two entries are of the same appliance
OneEntryPerAppliance ==
    \A i, j \in 1..Len(flow.entries) :
        flow.entries[i].appliance_id = flow.entries[j].appliance_id => i = j

\* the last submission selected an appliance that is already configured
AlreadyConfigured ==
    /\ flow.last.caught.kind = "AbortFlow"
    /\ flow.last.caught.msg = "already_configured"

\* C26: when the appliance selected during setup is already configured,
\* the flow ends in an abort and creates no entry, it does not show the
\* callback form again with an error; and there is at most one entry per
\* appliance_id after any sequence of flows
C26_AlreadyConfiguredAborts ==
    /\ AlreadyConfigured =>
           /\ flow.result = "abort"
           /\ flow.step # "callback"
           /\ flow.errors = ""
           /\ flow.last.created = NoSubmit.created
    /\ OneEntryPerAppliance

\* the code_challenge of the login URL is the S256 challenge of verifier
ChallengeOf(login_url, verifier) ==
    ParamValues(login_url, "code_challenge")
        = << <<"code_challenge",
               rstrip_pad(urlsafe_b64encode(sha256(verifier)))>> >>

\* a step within one flow: the initial step has run and this step is not
\* the initial step of the next flow
StepWithinFlow ==
    /\ flow.flows >= 1
    /\ flow'.flows = flow.flows

\* C27: in every setup flow the verifier, the state and the login URL do not
\* change between the initial step and any later callback submission, and
\* each code exchange, also one of a resubmission after a failed submission,
\* sends the code_verifier the initial step generated, whose challenge is in
\* the login URL shown to the user
C27_VerifierFixedPerFlow ==
    [][StepWithinFlow =>
         /\ flow'.context = flow.context
         /\ ChallengeOf(flow.context.login_url, flow.context.code_verifier)
         /\ (flow'.submits > flow.submits /\ flow'.last.exchanged) =>
                /\ flow'.last.sent_verifier = flow.context.code_verifier
                /\ ChallengeOf(flow'.context.login_url,
                               flow'.last.sent_verifier)]_vars

\* the second flow created its entry from a resubmission: its first
\* submission failed, the second sent the verifier of the flow's own draw
C27_Witness ==
    /\ flow.flows = 2
    /\ flow.submits = 2
    /\ flow.result = "create_entry"
    /\ flow.last.exchanged
    /\ flow.last.sent_verifier = flow.context.code_verifier
    /\ flow.last.sent_verifier # <<>>

=============================================================================
